---- MODULE Spec2Model ----
(***************************************************************************)
(* Model of AIND-Recognizer: the model selectors of my_model_selectors.py  *)
(* (SelectorBIC, SelectorDIC, SelectorCV) and recognize() of               *)
(* my_recognizer.py.                                                       *)
(*                                                                         *)
(* hmmlearn's GaussianHMM is outside the repository.  Each call of         *)
(* fit()/score() is answered by the environment when the call is made: a   *)
(* fit succeeds or raises, a score returns a log-likelihood or raises.     *)
(* The library is deterministic for a fixed random_state, so a repeated    *)
(* call (the final refit of a candidate that was already fitted on the     *)
(* same data) gets the answer of the first call, kept in `fitted`.         *)
(*                                                                         *)
(* Two selectors are constructed on the same word data, one with           *)
(* verbose = FALSE and one with verbose = TRUE, and run side by side       *)
(* against the same library answers: sel[v] is the selector whose verbose  *)
(* flag is v.                                                              *)
(*                                                                         *)
(* Floating point: log-likelihoods are integers in thousandths; a score    *)
(* that the code divides by a count that is the same for every candidate   *)
(* of a run (len(anti_words), n_split) is kept as its numerator over that  *)
(* count, which preserves every comparison the code makes.                 *)
(***************************************************************************)
EXTENDS Integers, Sequences, FiniteSets, TLC

\* ------------------------------------------------------------------ bounds
\* largest candidate state count explored
MaxN == 3
\* log-likelihood oracle values are drawn from 0..MaxScore (times Unit)
MaxScore == 1
\* largest total number of observation vectors of the word, sum(lengths)
MaxObs == 3
\* largest number of other words in the training vocabulary
MaxAnti == 2
\* n_features, the number of columns of the word's observation matrix X
NumFeatures == 2
\* number of distinct words (catalog keys and test-set words)
MaxWords == 2
\* largest number of items of the test set
MaxItems == 2
\* recognize: a model's log-likelihood of a test item is -Unit * k, k in 1..MaxNegLogL
MaxNegLogL == 1

\* ------------------------------------------------------- program constants
\* min_n_components default, the smallest candidate
MinStates == 2
\* best_num_states before the loop
DefaultBest == 2
\* KFold n_splits
NumFolds == 3
\* float("Inf"): larger than every finite score of the model
Inf == 1000000000
\* one unit of log-likelihood in thousandths
Unit == 1000

NegInf == -Inf
Scores == {Unit * k : k \in 0..MaxScore}

\* what a library call gives back: a value, or an exception
Ret(x) == [ok |-> TRUE, val |-> x]
Raise == [ok |-> FALSE, val |-> 0]

\* strategy: which selector class; lengths, min_n_components,
\* max_n_components: the constructor's arguments; num_anti: len(anti_words);
\* sel: the two selectors; fitted: the library's answer to each full-data fit
\* made so far; models .. guesses: the locals of recognize; answers: what
\* model.score gave for each (model, test item) scored; rpc: where recognize is.
VARIABLES strategy, lengths, min_n_components, max_n_components, num_anti,
          sel, fitted,
          models, wordlist, new_xlengths, probabilities, guesses, answers, rpc

selvars == <<strategy, lengths, min_n_components, max_n_components, num_anti,
             sel, fitted>>
recvars == <<models, wordlist, new_xlengths, probabilities, guesses, answers, rpc>>
vars == <<selvars, recvars>>

\* ---------------------------------------------------------------- helpers
RECURSIVE SumSeq(_)
SumSeq(s) == IF s = <<>> THEN 0 ELSE Head(s) + SumSeq(Tail(s))

\* math.log(n_samples) in thousandths (rounded to an even number of them)
LnFix == <<0, 694, 1098, 1386, 1610, 1792, 1946, 2080>>

\* sum(self.lengths); equals n_samples = X.shape[0]
TotalObs == SumSeq(lengths)

\* range(self.min_n_components, self.max_n_components + 1)
Cands == min_n_components..max_n_components

States == MinStates..MaxN

\* the word's lengths list: one positive length per training sequence
Lengths ==
  {l \in UNION {[1..k -> 1..MaxObs] : k \in 1..MaxObs} : SumSeq(l) <= MaxObs}

\* len(self.sequences): one sequence per entry of lengths
NumSequences == Len(lengths)

FoldName == <<"fold1", "fold2", "fold3">>

\* ------------------------------------------------- selector construction
\* ModelSelector.__init__ followed by the initial values of select().
\* pc, outcome and model_n record where select() is and what it gave back
\* ("None", a "model" with model_n states, or "raised": an exception left
\* select()); fits is the set of (n_components, data) fits attempted; evald,
\* cfail and cscore record, per candidate that reached the comparison, that
\* it did, whether its try block raised, and the score that was compared.
NewSelector ==
  [pc |-> IF Cands = {} THEN "refit" ELSE "loop",
   num_states |-> min_n_components,
   best_score |-> IF strategy = "BIC" THEN Inf ELSE NegInf,
   best_num_states |-> DefaultBest,
   outcome |-> "pending",
   model_n |-> 0,
   fits |-> {},
   evald |-> {},
   cfail |-> {},
   cscore |-> [n \in States |-> 0]]

\* `return None` inside the loop
ReturnNone(s) == [s EXCEPT !.pc = "done", !.outcome = "None"]

\* "Tracking best score and best number of states", then the next candidate
Track(s, score, failed, improves) ==
  LET n == s.num_states IN
  [s EXCEPT !.best_score = IF improves THEN score ELSE @,
            !.best_num_states = IF improves THEN n ELSE @,
            !.evald = @ \cup {n},
            !.cfail = IF failed THEN @ \cup {n} ELSE @,
            !.cscore = [@ EXCEPT ![n] = score],
            !.num_states = n + 1,
            !.pc = IF n + 1 > max_n_components THEN "refit" ELSE "loop"]

\* ------------------------------------------------------------ SelectorBIC
\* n_params = num_states ** 2 + (2 * num_states * n_features) - 1
NParams(n) == n * n + (2 * n * NumFeatures) - 1

\* BIC_score = (-2 * logL) + (n_params * math.log(n_samples))
BICScore(logL, n) == (-2 * logL) + (NParams(n) * LnFix[TotalObs])

TooFewSamplesOffByOne(n) == n > TotalObs + 1
\* if num_states > sum(self.lengths)
TooFewSamples(n) == n > TotalObs

LowerOrEqual(a, b) == a <= b
\* if BIC_score < best_score
Lower(a, b) == a < b

\* log-likelihoods the library may return for an n-state model of the word:
\* plain values, and values at which the BIC penalty is exactly offset
BICLogLs(n) ==
  Scores \cup {(NParams(n) * LnFix[TotalObs]) \div 2 - x : x \in Scores}

BICResponses(n) ==
  {[fit |-> FALSE, score |-> Raise]}
    \cup {[fit |-> TRUE, score |-> r] : r \in {Raise} \cup {Ret(x) : x \in BICLogLs(n)}}

\* one pass of the for loop of SelectorBIC.select
BICIter(s, verbose, r) ==
  LET n == s.num_states IN
  IF TooFewSamples(n) THEN ReturnNone(s)
  ELSE LET failed == ~r.fit \/ ~r.score.ok
           BIC_score == IF failed THEN 0 ELSE BICScore(r.score.val, n)
           s1 == [s EXCEPT !.fits = @ \cup {<<n, "full">>}]
       IN IF failed /\ verbose THEN ReturnNone(s1)
          ELSE Track(s1, BIC_score, failed, Lower(BIC_score, s1.best_score))

\* ------------------------------------------------------------ SelectorDIC
HigherOrEqual(a, b) == a >= b
\* if DIC_score > best_score   /   if score > best_score
Higher(a, b) == a > b

Results == {Raise} \cup {Ret(x) : x \in Scores}

\* hmm_model.score(...) of every word in anti_words, in list order
DICResponses ==
  {[fit |-> FALSE, score |-> Raise, anti |-> [w \in 1..num_anti |-> Raise]]}
    \cup {[fit |-> TRUE, score |-> Raise, anti |-> [w \in 1..num_anti |-> Raise]]}
    \cup {[fit |-> TRUE, score |-> Ret(x), anti |-> a] :
            x \in Scores, a \in [1..num_anti -> Results]}

RECURSIVE SumVals(_, _)
\* sum([... for word in anti_words])
SumVals(f, k) == IF k = 0 THEN 0 ELSE f[k].val + SumVals(f, k - 1)

\* DIC_score = logL - (anti_scores / len(anti_words)), as its numerator over
\* len(anti_words)
DICScore(logL, anti) == (num_anti * logL) - SumVals(anti, num_anti)

\* one pass of the for loop of SelectorDIC.select; the division raises
\* ZeroDivisionError when anti_words is empty
DICIter(s, verbose, r) ==
  LET n == s.num_states
      failed == \/ ~r.fit
                \/ ~r.score.ok
                \/ \E w \in 1..num_anti : ~r.anti[w].ok
                \/ num_anti = 0
      DIC_score == IF failed THEN 0 ELSE DICScore(r.score.val, r.anti)
      s1 == [s EXCEPT !.fits = @ \cup {<<n, "full">>}]
  IN IF failed /\ verbose THEN ReturnNone(s1)
     ELSE Track(s1, DIC_score, failed, Higher(DIC_score, s1.best_score))

\* ------------------------------------------------------------- SelectorCV
\* if len(self.sequences) < 3: n_split = 1, DO_KFOLD = False; else 3, True
DO_KFOLD == ~(NumSequences < NumFolds)
n_split == IF DO_KFOLD THEN NumFolds ELSE 1

CVResponses ==
  IF DO_KFOLD
  THEN {[fit |-> TRUE, score |-> Raise, fold |-> f] : f \in [1..NumFolds -> Results]}
  ELSE {[fit |-> FALSE, score |-> Raise, fold |-> <<>>]}
         \cup {[fit |-> TRUE, score |-> r, fold |-> <<>>] : r \in Results}

RECURSIVE KFoldLoop(_, _, _, _, _, _)
\* for cv_train_idx, cv_test_idx in split_method.split(self.sequences):
\* fold f is fitted on its training part and scored on its held-out part;
\* a failure returns None when verbose and is passed over otherwise
KFoldLoop(f, n, fold, verbose, score, fits) ==
  IF f > NumFolds
  THEN [ret |-> FALSE, score |-> score, fits |-> fits]
  ELSE LET fits1 == fits \cup {<<n, FoldName[f]>>} IN
       IF fold[f].ok
       THEN KFoldLoop(f + 1, n, fold, verbose, score + fold[f].val, fits1)
       ELSE IF verbose
            THEN [ret |-> TRUE, score |-> score, fits |-> fits1]
            ELSE KFoldLoop(f + 1, n, fold, verbose, score, fits1)

\* one pass of the for loop of SelectorCV.select; score /= n_split leaves the
\* numerator over n_split unchanged
CVIter(s, verbose, r) ==
  LET n == s.num_states IN
  IF DO_KFOLD
  THEN LET k == KFoldLoop(1, n, r.fold, verbose, 0, s.fits)
           failed == \E f \in 1..NumFolds : ~r.fold[f].ok
           s1 == [s EXCEPT !.fits = k.fits]
       IN IF k.ret THEN ReturnNone(s1)
          ELSE Track(s1, k.score, failed, Higher(k.score, s1.best_score))
  ELSE LET failed == ~r.fit \/ ~r.score.ok
           score == IF failed THEN 0 ELSE r.score.val
           s1 == [s EXCEPT !.fits = @ \cup {<<n, "full">>}]
       IN IF failed /\ verbose THEN ReturnNone(s1)
          ELSE Track(s1, score, failed, Higher(score, s1.best_score))

\* ----------------------------------------------------------- final refit
\* GaussianHMM(n_components=best_num_states, ...).fit(self.X, self.lengths)
\* after the loop, outside any try: a failing fit raises out of select()
RefitModel(s, ok) ==
  LET n == s.best_num_states
      s1 == [s EXCEPT !.fits = @ \cup {<<n, "full">>}, !.pc = "done"]
  IN IF ok[n] THEN [s1 EXCEPT !.outcome = "model", !.model_n = n]
     ELSE [s1 EXCEPT !.outcome = "raised"]

\* ----------------------------------------------------------------- actions
Running == {v \in BOOLEAN : sel[v].pc = "loop"}

\* the candidate the running selectors are at
Current == sel[FALSE].num_states

Remember(n, r) == [fitted EXCEPT ![n] = IF r.fit THEN "ok" ELSE "fail"]

SelectInit ==
  /\ strategy \in {"BIC", "DIC", "CV"}
  /\ lengths \in Lengths
  /\ min_n_components \in States
  /\ max_n_components \in (min_n_components - 1)..MaxN
  \* only SelectorDIC reads self.words
  /\ num_anti \in IF strategy = "DIC" THEN 0..MaxAnti ELSE {MaxAnti}
  /\ sel = [v \in BOOLEAN |-> NewSelector]
  /\ fitted = [n \in States |-> "unknown"]

BICStep ==
  /\ strategy = "BIC"
  /\ Running # {}
  /\ IF TooFewSamples(Current)
     THEN /\ sel' = [v \in BOOLEAN |->
                       IF v \in Running THEN BICIter(sel[v], v, Raise) ELSE sel[v]]
          /\ fitted' = fitted
     ELSE \E r \in BICResponses(Current) :
            /\ sel' = [v \in BOOLEAN |->
                         IF v \in Running THEN BICIter(sel[v], v, r) ELSE sel[v]]
            /\ fitted' = Remember(Current, r)
  /\ UNCHANGED <<strategy, lengths, min_n_components, max_n_components, num_anti>>
  /\ UNCHANGED recvars

DICStep ==
  /\ strategy = "DIC"
  /\ Running # {}
  /\ \E r \in DICResponses :
       /\ sel' = [v \in BOOLEAN |->
                    IF v \in Running THEN DICIter(sel[v], v, r) ELSE sel[v]]
       /\ fitted' = Remember(Current, r)
  /\ UNCHANGED <<strategy, lengths, min_n_components, max_n_components, num_anti>>
  /\ UNCHANGED recvars

CVStep ==
  /\ strategy = "CV"
  /\ Running # {}
  /\ \E r \in CVResponses :
       /\ sel' = [v \in BOOLEAN |->
                    IF v \in Running THEN CVIter(sel[v], v, r) ELSE sel[v]]
       /\ fitted' = IF DO_KFOLD THEN fitted ELSE Remember(Current, r)
  /\ UNCHANGED <<strategy, lengths, min_n_components, max_n_components, num_anti>>
  /\ UNCHANGED recvars

Refit ==
  LET at == {v \in BOOLEAN : sel[v].pc = "refit"}
      needed == {sel[v].best_num_states : v \in at}
  IN /\ at # {}
     /\ \E ok \in [States -> BOOLEAN] :
          /\ \A n \in States :
               IF fitted[n] # "unknown" THEN ok[n] = (fitted[n] = "ok")
               ELSE n \notin needed => ok[n]
          /\ sel' = [v \in BOOLEAN |->
                       IF v \in at THEN RefitModel(sel[v], ok) ELSE sel[v]]
          /\ fitted' = [n \in States |->
                          IF n \in needed
                          THEN (IF ok[n] THEN "ok" ELSE "fail")
                          ELSE fitted[n]]
     /\ UNCHANGED <<strategy, lengths, min_n_components, max_n_components, num_anti>>
     /\ UNCHANGED recvars
  /\ UNCHANGED recvars

\* --------------------------------------------------------------- recognize
\* words are numbered in the order Python compares their strings
Words == 1..MaxWords

\* the keys of models, in the dict's iteration order
Catalogs ==
  {c \in UNION {[1..k -> Words] : k \in 0..MaxWords} :
     \A i, j \in DOMAIN c : i # j => c[i] # c[j]}

\* test_set.wordlist: the word of each test item, in item order
WordLists == UNION {[1..k -> Words] : k \in 0..MaxItems}

\* the keys of {word: None for word in all_words}
TestWords == {wordlist[i] : i \in DOMAIN wordlist}

MaxOf(S) == CHOOSE x \in S : \A y \in S : y <= x

\* for i in range(len(all_words)): new_xlengths[all_words[i]] = Xlengths.pop(old_keys[i])
\* a word keeps the data of the last item that carries it
RekeyByWord == [w \in TestWords |-> MaxOf({i \in DOMAIN wordlist : wordlist[i] = w})]

\* what model.score(X, lengths) may give for a test item
TestResults == {Raise} \cup {Ret(-(Unit * k)) : k \in 1..MaxNegLogL}

SafeScoreZero(r) == IF r.ok THEN r.val ELSE 0
\* try: logL = model.score(...)  except: logL = float("-Inf")
SafeScore(r) == IF r.ok THEN r.val ELSE NegInf

\* the test items whose data new_xlengths holds
ScoredItems(x) == {x[w] : w \in DOMAIN x}

\* prob_dict after the inner loop over all_words: each word is scored on
\* new_xlengths[word]; r is what model.score gives for each item's data
ProbDict(x, r) == [w \in DOMAIN x |-> SafeScore(r[x[w]])]

\* best_guess = max(prob_dict): the largest key of the dict
BestGuess(prob_dict) == MaxOf(DOMAIN prob_dict)

RecognizeInit ==
  /\ models \in Catalogs
  /\ wordlist \in WordLists
  /\ new_xlengths = <<>>
  /\ probabilities = <<>>
  /\ guesses = <<>>
  /\ answers = <<>>
  /\ rpc = "start"

\* lines 22-30: the lists are created and the test data is re-keyed by word
Prepare ==
  /\ rpc = "start"
  /\ new_xlengths' = RekeyByWord
  /\ rpc' = "models"
  /\ UNCHANGED <<models, wordlist, probabilities, guesses, answers>>
  /\ UNCHANGED selvars

\* one pass of `for key, model in models.items()`; max() of an empty dict
\* raises ValueError out of recognize
ScoreModel ==
  /\ rpc = "models"
  /\ Len(probabilities) < Len(models)
  /\ \E r \in [ScoredItems(new_xlengths) -> TestResults] :
       LET prob_dict == ProbDict(new_xlengths, r) IN
       /\ answers' = Append(answers, r)
       /\ IF DOMAIN prob_dict = {}
          THEN /\ rpc' = "raised"
               /\ UNCHANGED <<probabilities, guesses>>
          ELSE /\ probabilities' = Append(probabilities, prob_dict)
               /\ guesses' = Append(guesses, BestGuess(prob_dict))
               /\ rpc' = rpc
  /\ UNCHANGED <<models, wordlist, new_xlengths>>
  /\ UNCHANGED selvars

\* return probabilities, guesses
Return ==
  /\ rpc = "models"
  /\ Len(probabilities) = Len(models)
  /\ rpc' = "returned"
  /\ UNCHANGED <<models, wordlist, new_xlengths, probabilities, guesses, answers>>
  /\ UNCHANGED selvars

\* ---------------------------------------------------------- specifications
SelectIdle ==
  /\ strategy = "BIC"
  /\ lengths = <<1>>
  /\ min_n_components = MinStates
  /\ max_n_components = MinStates
  /\ num_anti = 0
  /\ sel = [v \in BOOLEAN |-> [pc |-> "idle"]]
  /\ fitted = <<>>

RecognizeIdle ==
  /\ models = <<>>
  /\ wordlist = <<>>
  /\ new_xlengths = <<>>
  /\ probabilities = <<>>
  /\ guesses = <<>>
  /\ answers = <<>>
  /\ rpc = "idle"

Init == SelectInit /\ RecognizeIdle

Next == BICStep \/ DICStep \/ CVStep \/ Refit

\* model selection for one word
Spec == Init /\ [][Next]_vars

RecInit == RecognizeInit /\ SelectIdle

RecNext == Prepare \/ ScoreModel \/ Return

\* one call of recognize
SpecRecognize == RecInit /\ [][RecNext]_vars

\* ------------------------------------------------------------------ claims
Rows == 1..Len(probabilities)
CatalogWords == {models[k] : k \in DOMAIN models}

\* C1: recognize returns one (score row, best guess) pair per test item, in
\* test-item order: with a catalog of at least one word and a test set of at
\* least one item, both returned lists have as many entries as the test set
\* has items, whatever the catalog size.
C1_OnePairPerTestItem ==
  (rpc = "returned" /\ Len(models) >= 1 /\ Len(wordlist) >= 1)
    => /\ Len(probabilities) = Len(wordlist)
       /\ Len(guesses) = Len(wordlist)

\* C2: every score row has exactly one entry per catalog word: the key set of
\* each row is the key set of the models catalog.
C2_RowKeysAreCatalogWords ==
  \A j \in Rows : DOMAIN probabilities[j] = CatalogWords

\* C3: the best guess of a row is a word of maximum score in that row: no
\* other word of the row has a strictly greater score than the guess.
C3_GuessIsArgmax ==
  \A j \in Rows :
    /\ guesses[j] \in DOMAIN probabilities[j]
    /\ \A w \in DOMAIN probabilities[j] :
         probabilities[j][w] <= probabilities[j][guesses[j]]

\* the test item whose data stands for word w: the last item carrying w
ItemOf(w) == MaxOf({i \in DOMAIN wordlist : wordlist[i] = w})

\* C4: a (model, test item) pair whose scoring raises is recorded as negative
\* infinity, not omitted; every entry depends on the answer to its own pair
\* only (a pair that scored keeps its score whatever failed elsewhere, and the
\* guess of a row does not depend on any answer); recognize returns normally
\* whenever at least one pair was scored.
C4_FailedPairIsNegInf ==
  /\ \A j \in Rows :
       /\ DOMAIN probabilities[j] = TestWords
       /\ \A w \in TestWords :
            probabilities[j][w] =
              IF answers[j][ItemOf(w)].ok THEN answers[j][ItemOf(w)].val ELSE NegInf
       /\ guesses[j] = MaxOf(TestWords)
  /\ (\E j \in DOMAIN answers : DOMAIN answers[j] # {}) => rpc # "raised"
  /\ (rpc = "returned" /\ TestWords # {}) => Len(probabilities) = Len(models)

C4_Witness ==
  /\ rpc = "returned"
  /\ \E j, k \in Rows : \E w, x \in TestWords :
       /\ <<j, w>> # <<k, x>>
       /\ ~answers[j][ItemOf(w)].ok
       /\ probabilities[j][w] = NegInf
       /\ answers[k][ItemOf(x)].ok
       /\ probabilities[k][x] = answers[k][ItemOf(x)].val

\* C5: in SelectorBIC and SelectorDIC a candidate whose fit or scoring fails
\* is excluded from the comparison: evaluating it leaves best_score and
\* best_num_states as they were.
C5_FailedCandidateExcluded ==
  [][\A v \in BOOLEAN :
       (/\ strategy \in {"BIC", "DIC"}
        /\ sel[v].pc = "loop"
        /\ sel[v].num_states \in sel'[v].cfail)
         => /\ sel'[v].best_score = sel[v].best_score
            /\ sel'[v].best_num_states = sel[v].best_num_states]_vars

\* every candidate of a non-empty range failed, and no full-data fit of a
\* candidate succeeded
EveryCandidateFailed ==
  /\ Cands # {}
  /\ sel[FALSE].cfail = Cands
  /\ \A n \in Cands : fitted[n] # "ok"

\* C6: if every candidate in [min_n, max_n] fails, select() returns None: it
\* neither raises nor returns a model.
C6_AllFailedReturnsNone ==
  \A v \in BOOLEAN :
    (sel[v].pc = "done" /\ EveryCandidateFailed) => sel[v].outcome = "None"

\* the strategy's order on scores: lower BIC, higher DIC, higher average
Better(a, b) == IF strategy = "BIC" THEN a < b ELSE a > b

Optimal(v, n) ==
  \A m \in Cands : ~Better(sel[v].cscore[m], sel[v].cscore[n])

AllSucceeded(v) ==
  /\ Cands # {}
  /\ sel[v].evald = Cands
  /\ sel[v].cfail = {}

\* C7: when every candidate of the range fitted and scored, select() returns
\* the model refitted with the smallest n whose score is optimal (minimum BIC,
\* maximum DIC, maximum average log-likelihood); the only other outcome is
\* the cross-validated refit on the full data, a fit not made before, raising.
C7_SmallestOptimalChosen ==
  \A v \in BOOLEAN :
    (sel[v].pc = "done" /\ AllSucceeded(v))
      => /\ sel[v].outcome \in {"model", "raised"}
         /\ sel[v].outcome = "raised" => (strategy = "CV" /\ DO_KFOLD)
         /\ sel[v].outcome = "model" =>
              /\ sel[v].model_n \in Cands
              /\ Optimal(v, sel[v].model_n)
              /\ \A m \in Cands : Optimal(v, m) => sel[v].model_n <= m
              /\ <<sel[v].model_n, "full">> \in sel[v].fits

C7_Witness ==
  \E v \in BOOLEAN :
    /\ sel[v].pc = "done"
    /\ AllSucceeded(v)
    /\ sel[v].outcome = "model"
    /\ \E m \in Cands :
         /\ m > sel[v].model_n
         /\ sel[v].cscore[m] = sel[v].cscore[sel[v].model_n]

SomeCandidateExceedsObs == \E n \in Cands : n > TotalObs

\* C8: in SelectorBIC, if a candidate of the range exceeds the word's number
\* of observation vectors, select() returns None, no fit is attempted for any
\* n above that number, and nothing is fitted when min_n is already above it.
C8_TooManyStatesFails ==
  (strategy = "BIC" /\ SomeCandidateExceedsObs)
    => \A v \in BOOLEAN :
         /\ \A f \in sel[v].fits : f[1] <= TotalObs
         /\ sel[v].pc = "done" => sel[v].outcome = "None"
         /\ min_n_components > TotalObs => sel[v].fits = {}
         /\ sel[v].pc # "refit"

C8_Witness ==
  /\ strategy = "BIC"
  /\ SomeCandidateExceedsObs
  /\ min_n_components <= TotalObs
  /\ sel[FALSE].pc = "done"
  /\ sel[FALSE].outcome = "None"
  /\ sel[FALSE].fits # {}
  /\ sel[FALSE].cfail = {}

\* C9: in SelectorCV with 3 or more sequences, a candidate with a failed fold
\* is unusable: evaluating it leaves best_score and best_num_states as they
\* were (its partial sum is never compared).
C9_FailedFoldExcluded ==
  [][\A v \in BOOLEAN :
       (/\ strategy = "CV"
        /\ DO_KFOLD
        /\ sel[v].pc = "loop"
        /\ sel[v].num_states \in sel'[v].cfail)
         => /\ sel'[v].best_score = sel[v].best_score
            /\ sel'[v].best_num_states = sel[v].best_num_states]_vars

\* C10: the outcome of select() does not depend on verbose: the two
\* selectors, given the same data and the same library answers, both return
\* None or both return a model refitted with the same best_n.
C10_VerboseIndependent ==
  (sel[TRUE].pc = "done" /\ sel[FALSE].pc = "done")
    => /\ sel[TRUE].outcome = sel[FALSE].outcome
       /\ sel[TRUE].model_n = sel[FALSE].model_n

====
